---- MODULE Spec2Model ----
(***************************************************************************)
(* Model of debug_vm_creation.py: a script that loads four modules, defines *)
(* OMA_API_BASE, and calls test_vm_creation_timing(), a straight line of    *)
(* print statements around one request dictionary whose failover_job_id is  *)
(* built from time.time().                                                  *)
(*                                                                          *)
(* One action per statement of the script; pc names the statement about to  *)
(* run by its source line.  The environment is the wall clock (which ticks  *)
(* and can be set back), the launching of the script, and, in the fault     *)
(* specifications, a standard output that stops accepting writes and a      *)
(* requests package that is not importable.                                 *)
(*                                                                          *)
(* print() is modelled as a write that reaches the stream at the statement  *)
(* (a terminal, or an unbuffered stream); every element of stdout is the    *)
(* text of one print call, which print() ends with a newline.               *)
(***************************************************************************)
EXTENDS Integers, Sequences, FiniteSets, TLC

\* ---------------------------------------------------------------- bounds
\* The wall clock is observed at TicksPerSecond readings per second, within
\* the window of whole seconds EpochSec .. EpochSec + SpanSec.
TicksPerSecond == 2
EpochSec == 9
SpanSec == 1
\* How many completed invocations the history keeps (launches are capped).
MaxRuns == 2

MinClock == EpochSec * TicksPerSecond
MaxClock == (EpochSec + SpanSec) * TicksPerSecond + (TicksPerSecond - 1)

VARIABLES
    pc,               \* the statement about to run: "idle", "load", "main", "L14" .. "L39", "returned", "raised", "exited"
    stdout,           \* the texts written by this run's print calls, in order
    test_vm_request,  \* the local dictionary of test_vm_creation_timing, as (key, value) pairs in insertion order
    OMA_API_BASE,     \* the module-level name, Undefined until line 11 runs
    imported,         \* the modules bound by the import statements
    ret,              \* what the last call of test_vm_creation_timing returned
    error,            \* the exception being propagated, "none" otherwise
    exit_status,      \* the process exit status, Running while it runs
    clock,            \* the wall clock, in ticks
    stdout_ok,        \* whether standard output accepts writes
    requests_ok,      \* whether the third-party package requests is importable
    sockets,          \* the connections this run has opened
    base_reads,       \* how many times this run has read OMA_API_BASE
    clock_reads,      \* how many times this invocation has called time.time()
    t_read,           \* what time.time() returned to this invocation, NoReading before
    back_read,        \* whether the clock had been set back between the previous reading and this one
    set_back,         \* whether the clock has been set back since the last reading
    trace,            \* the source lines of the statements this invocation has run, in order
    launches,         \* how many times the script has been launched
    runs              \* one record per returned invocation, oldest first

vars == <<pc, stdout, test_vm_request, OMA_API_BASE, imported, ret, error,
          exit_status, clock, stdout_ok, requests_ok, sockets,
          base_reads, clock_reads, t_read, back_read, set_back, trace,
          launches, runs>>

\* ------------------------------------------------------- values and text
Undefined == "<undefined>"
NoValue == "<no value>"
NoRequest == <<>>
NoReading == -1
Running == -1

Modules == <<"requests", "json", "time", "sys">>

VmLiteral == "debug-test-vm-001"
JobPrefix == "debug-test-"
DescPrefix == "1. Creating test VM with request: "

Text14 == "=== DEBUGGING VM CREATION AND ROOT VOLUME TIMING ==="
Text26 == "2. Monitoring VM creation timing..."
Text29 == "RACE CONDITION SCENARIO:"
Text30 == "  Step 1: VM creation submitted to CloudStack"
Text31 == "  Step 2: CloudStack returns job ID immediately"
Text32 == "  Step 3: WaitForAsyncJob waits for job completion"
Text33 == "  Step 4: waitForVMFullyProvisioned waits for root volume"
Text34 == "  Step 5: VM operations proceed..."
Text35 == ""
Text36 == "ISSUE: If Step 4 times out or fails to detect root volume,"
Text37 == "       the subsequent root volume deletion will fail!"

\* ------------------------------------------------------- pure functions
\* Variant of int(): round() in its place, which goes up from the half second.
int_rounded(ticks) == (2 * ticks + TicksPerSecond) \div (2 * TicksPerSecond)

\* int(x) for a non-negative float x given in ticks: truncation to whole seconds.
int(ticks) == ticks \div TicksPerSecond

Digit(d) == <<"0", "1", "2", "3", "4", "5", "6", "7", "8", "9">>[d + 1]

RECURSIVE str(_)
\* The f-string's formatting of a non-negative int: its decimal digits.
str(n) == IF n < 10 THEN Digit(n) ELSE str(n \div 10) \o Digit(n % 10)

\* f"debug-test-{int(time.time())}" for a clock reading t.
JobId(t) == JobPrefix \o str(int(t))

\* Variant of lines 17-21: the VM name made unique per run as well.
Request_NameStamped(t) ==
    << <<"vm_id", VmLiteral>>,
       <<"vm_name", VmLiteral \o "-" \o str(int(t))>>,
       <<"failover_job_id", JobId(t)>> >>

\* The dictionary literal of lines 17-21, keys in insertion order.
Request(t) ==
    << <<"vm_id", VmLiteral>>,
       <<"vm_name", VmLiteral>>,
       <<"failover_job_id", JobId(t)>> >>

\* json.dumps of a str none of whose characters needs escaping.
Quote(s) == "\"" \o s \o "\""

RECURSIVE Members(_, _)
\* The members of a non-empty dict at indent 2, from the i-th on, separated by ",\n".
Members(d, i) ==
    LET item == "  " \o Quote(d[i][1]) \o ": " \o Quote(d[i][2])
    IN  IF i = Len(d) THEN item ELSE item \o ",\n" \o Members(d, i + 1)

\* json.dumps(d, indent=2) for a dict of str values.
json_dumps(d) == IF Len(d) = 0 THEN "{}" ELSE "{\n" \o Members(d, 1) \o "\n}"

\* ------------------------------------------------------------- the state
Init ==
    /\ pc = "idle"
    /\ stdout = <<>>
    /\ test_vm_request = NoRequest
    /\ OMA_API_BASE = Undefined
    /\ imported = {}
    /\ ret = NoValue
    /\ error = "none"
    /\ exit_status = Running
    /\ clock \in MinClock..MaxClock
    /\ stdout_ok = TRUE
    /\ requests_ok = TRUE
    /\ sockets = {}
    /\ base_reads = 0
    /\ clock_reads = 0
    /\ t_read = NoReading
    /\ back_read = FALSE
    /\ set_back = FALSE
    /\ trace = <<>>
    /\ launches = 0
    /\ runs = <<>>

\* What no statement of the script touches: the environment and the history.
EnvUnchanged == UNCHANGED <<clock, stdout_ok, requests_ok, launches>>
\* What no statement of the function body touches.
ModuleUnchanged == UNCHANGED <<OMA_API_BASE, imported, exit_status, sockets, base_reads>>

\* ------------------------------------------------------- the environment
\* The script is run (line 1, "python3 debug_vm_creation.py"): a new process
\* with nothing defined, nothing written and a standard output of its own.
Launch ==
    /\ pc \in {"idle", "exited"}
    /\ launches < MaxRuns
    /\ launches' = launches + 1
    /\ pc' = "load"
    /\ stdout' = <<>>
    /\ stdout_ok' = TRUE
    /\ test_vm_request' = NoRequest
    /\ OMA_API_BASE' = Undefined
    /\ imported' = {}
    /\ ret' = NoValue
    /\ error' = "none"
    /\ exit_status' = Running
    /\ sockets' = {}
    /\ base_reads' = 0
    /\ clock_reads' = 0
    /\ t_read' = NoReading
    /\ back_read' = FALSE
    /\ trace' = <<>>
    /\ UNCHANGED <<clock, requests_ok, set_back, runs>>

\* The wall clock advances.
ClockTick ==
    /\ clock < MaxClock
    /\ clock' = clock + 1
    /\ UNCHANGED <<pc, stdout, test_vm_request, OMA_API_BASE, imported, ret, error,
                   exit_status, stdout_ok, requests_ok, sockets, base_reads,
                   clock_reads, t_read, back_read, set_back, trace, launches, runs>>

\* The wall clock is set back (an operator, NTP): time.time() is not monotonic.
ClockSetBack ==
    /\ \E c \in MinClock..(clock - 1) : clock' = c
    /\ set_back' = TRUE
    /\ UNCHANGED <<pc, stdout, test_vm_request, OMA_API_BASE, imported, ret, error,
                   exit_status, stdout_ok, requests_ok, sockets, base_reads,
                   clock_reads, t_read, back_read, trace, launches, runs>>

\* Standard output stops accepting writes (its reader is gone, the disk is full).
StdoutBreaks ==
    /\ stdout_ok
    /\ pc \notin {"idle", "exited"}
    /\ stdout_ok' = FALSE
    /\ UNCHANGED <<pc, stdout, test_vm_request, OMA_API_BASE, imported, ret, error,
                   exit_status, clock, requests_ok, sockets, base_reads,
                   clock_reads, t_read, back_read, set_back, trace, launches, runs>>

\* The third-party package requests is not (or no longer) installed when the
\* script is next run; the script looks for it at line 6 only.
RequestsUninstalled ==
    /\ requests_ok
    /\ pc \in {"idle", "exited"}
    /\ requests_ok' = FALSE
    /\ UNCHANGED <<pc, stdout, test_vm_request, OMA_API_BASE, imported, ret, error,
                   exit_status, clock, stdout_ok, sockets, base_reads,
                   clock_reads, t_read, back_read, set_back, trace, launches, runs>>

\* ------------------------------------------------------------ the script
\* Lines 6-9: import requests, json, time, sys.  Only requests is outside the
\* standard library; importing it raises ModuleNotFoundError when it is missing.
Import ==
    /\ pc = "load"
    /\ IF requests_ok
       THEN /\ imported' = {Modules[i] : i \in 1..Len(Modules)}
            /\ pc' = "L11"
            /\ error' = error
       ELSE /\ imported' = imported
            /\ pc' = "raised"
            /\ error' = "ModuleNotFoundError"
    /\ UNCHANGED <<stdout, test_vm_request, OMA_API_BASE, ret, exit_status, sockets,
                   base_reads, clock_reads, t_read, back_read, set_back, trace, runs>>
    /\ EnvUnchanged

\* Variant of line 11: the base URL read from a configuration file, which may be missing.
DefineBase_FromFile ==
    /\ pc = "L11"
    /\ \E found \in BOOLEAN :
          IF found
          THEN /\ OMA_API_BASE' = "http://localhost:8080"
               /\ pc' = "main"
               /\ error' = error
          ELSE /\ OMA_API_BASE' = OMA_API_BASE
               /\ pc' = "raised"
               /\ error' = "FileNotFoundError"
    /\ UNCHANGED <<stdout, test_vm_request, imported, ret, exit_status, sockets,
                   base_reads, clock_reads, t_read, back_read, set_back, trace, runs>>
    /\ EnvUnchanged

\* Line 11: OMA_API_BASE = "http://localhost:8080" (and line 13 binds the function).
DefineBase ==
    /\ pc = "L11"
    /\ OMA_API_BASE' = "http://localhost:8080"
    /\ pc' = "main"
    /\ UNCHANGED <<stdout, test_vm_request, imported, ret, error, exit_status, sockets,
                   base_reads, clock_reads, t_read, back_read, set_back, trace, runs>>
    /\ EnvUnchanged

\* Lines 41-42: run as a script, __name__ is "__main__" and the function is called.
Main ==
    /\ pc = "main"
    /\ pc' = "L14"
    /\ trace' = <<>>
    /\ clock_reads' = 0
    /\ UNCHANGED <<stdout, test_vm_request, ret, error, t_read, back_read, set_back, runs>>
    /\ ModuleUnchanged
    /\ EnvUnchanged

\* Variant of print: a failed write caught and ignored (try: ... except OSError: pass).
print_swallowing(here, line, text, next) ==
    /\ pc = here
    /\ trace' = Append(trace, line)
    /\ stdout' = IF stdout_ok THEN Append(stdout, text) ELSE stdout
    /\ pc' = next
    /\ UNCHANGED <<test_vm_request, ret, error, clock_reads, t_read, back_read, set_back, runs>>
    /\ ModuleUnchanged
    /\ EnvUnchanged

\* print(text) at source line `line`, reached at pc `here`, followed by `next`.
\* A write that fails raises OSError, which nothing in the script catches.
print(here, line, text, next) ==
    /\ pc = here
    /\ trace' = Append(trace, line)
    /\ IF stdout_ok
       THEN /\ stdout' = Append(stdout, text)
            /\ pc' = next
            /\ error' = error
       ELSE /\ stdout' = stdout
            /\ pc' = "raised"
            /\ error' = "OSError"
    /\ UNCHANGED <<test_vm_request, ret, clock_reads, t_read, back_read, set_back, runs>>
    /\ ModuleUnchanged
    /\ EnvUnchanged

\* Variant of line 14: the banner carries the time of the run.
PrintHeader_Timestamped == print("L14", 14, Text14 \o " " \o str(int(clock)), "L17")

\* Line 14.
PrintHeader == print("L14", 14, Text14, "L17")

\* Lines 17-21: the dictionary literal; its third value calls time.time() once.
BuildRequest ==
    /\ pc = "L17"
    /\ trace' = Append(trace, 17)
    /\ t_read' = clock
    /\ clock_reads' = clock_reads + 1
    /\ back_read' = set_back
    /\ set_back' = FALSE
    /\ test_vm_request' = Request(clock)
    /\ pc' = "L23"
    /\ UNCHANGED <<stdout, ret, error, runs>>
    /\ ModuleUnchanged
    /\ EnvUnchanged

\* Variant of line 23: the descriptor built again for the print, time.time() called anew.
PrintRequest_ReadsAgain ==
    /\ pc = "L23"
    /\ trace' = Append(trace, 23)
    /\ clock_reads' = clock_reads + 1
    /\ stdout' = Append(stdout, DescPrefix \o json_dumps(Request(clock)))
    /\ pc' = "L26"
    /\ UNCHANGED <<test_vm_request, ret, error, t_read, back_read, set_back, runs>>
    /\ ModuleUnchanged
    /\ EnvUnchanged

\* Line 23: the request descriptor, serialised by json.dumps(..., indent=2).
PrintRequest == print("L23", 23, DescPrefix \o json_dumps(test_vm_request), "L26")

\* Variant of lines 25-26: the call the comment speaks of is made,
\* requests.post(OMA_API_BASE + ...), before the print.
PrintMonitoring_CallsApi ==
    /\ pc = "L26"
    /\ trace' = Append(trace, 26)
    /\ base_reads' = base_reads + 1
    /\ sockets' = sockets \cup {OMA_API_BASE}
    /\ stdout' = Append(stdout, Text26)
    /\ pc' = "L29"
    /\ UNCHANGED <<test_vm_request, ret, error, clock_reads, t_read, back_read, set_back,
                   runs, OMA_API_BASE, imported, exit_status>>
    /\ EnvUnchanged

\* Lines 25-26: the comment says the API would be called here; only a print is.
PrintMonitoring == print("L26", 26, Text26, "L29")

\* Line 29.
PrintScenario == print("L29", 29, Text29, "L30")

\* Variant of line 31: the text of line 32 pasted in its place.
PrintStep2_Pasted == print("L31", 31, Text32, "L32")

\* Lines 30-34: the five narrative steps.
PrintStep1 == print("L30", 30, Text30, "L31")
PrintStep2 == print("L31", 31, Text31, "L32")
PrintStep3 == print("L32", 32, Text32, "L33")
PrintStep4 == print("L33", 33, Text33, "L34")
PrintStep5 == print("L34", 34, Text34, "L35")

\* Line 35: print("").
PrintBlank == print("L35", 35, Text35, "L36")

\* Lines 36-37: the closing warning.
PrintIssue1 == print("L36", 36, Text36, "L37")
PrintIssue2 == print("L37", 37, Text37, "L39")

\* Variant of line 39: the descriptor kept in a module-level name, outliving the call.
Return_KeepsRequest ==
    /\ pc = "L39"
    /\ trace' = Append(trace, 39)
    /\ ret' = "True"
    /\ runs' = Append(runs, [out |-> stdout, request |-> test_vm_request])
    /\ pc' = "returned"
    /\ UNCHANGED <<stdout, test_vm_request, error, clock_reads, t_read, back_read, set_back>>
    /\ ModuleUnchanged
    /\ EnvUnchanged

\* Variant of line 39: the return statement left out, so the call yields None.
Return_None ==
    /\ pc = "L39"
    /\ trace' = Append(trace, 39)
    /\ ret' = "None"
    /\ test_vm_request' = NoRequest
    /\ runs' = Append(runs, [out |-> stdout, request |-> test_vm_request])
    /\ pc' = "returned"
    /\ UNCHANGED <<stdout, error, clock_reads, t_read, back_read, set_back>>
    /\ ModuleUnchanged
    /\ EnvUnchanged

\* Line 39: return True; the frame and its local are gone.
Return ==
    /\ pc = "L39"
    /\ trace' = Append(trace, 39)
    /\ ret' = "True"
    /\ test_vm_request' = NoRequest
    /\ runs' = Append(runs, [out |-> stdout, request |-> test_vm_request])
    /\ pc' = "returned"
    /\ UNCHANGED <<stdout, error, clock_reads, t_read, back_read, set_back>>
    /\ ModuleUnchanged
    /\ EnvUnchanged

\* Line 42 discards the value; the module ends and the interpreter exits with 0.
Exit ==
    /\ pc = "returned"
    /\ exit_status' = 0
    /\ pc' = "exited"
    /\ UNCHANGED <<stdout, test_vm_request, OMA_API_BASE, imported, ret, error, sockets,
                   base_reads, clock_reads, t_read, back_read, set_back, trace, runs>>
    /\ EnvUnchanged

\* An exception nothing catches: the interpreter prints the traceback to
\* standard error and exits with status 1.
Crash ==
    /\ pc = "raised"
    /\ exit_status' = 1
    /\ pc' = "exited"
    /\ UNCHANGED <<stdout, test_vm_request, OMA_API_BASE, imported, ret, error, sockets,
                   base_reads, clock_reads, t_read, back_read, set_back, trace, runs>>
    /\ EnvUnchanged

\* ---------------------------------------------------- the specifications
\* The statements of the script, which the interpreter runs one after another.
Program ==
    \/ Import \/ DefineBase \/ Main
    \/ PrintHeader \/ BuildRequest \/ PrintRequest \/ PrintMonitoring
    \/ PrintScenario \/ PrintStep1 \/ PrintStep2 \/ PrintStep3 \/ PrintStep4
    \/ PrintStep5 \/ PrintBlank \/ PrintIssue1 \/ PrintIssue2
    \/ Return \/ Exit

Environment == Launch \/ ClockTick \/ ClockSetBack

Faults == StdoutBreaks \/ RequestsUninstalled \/ Crash

\* Normal conditions: standard output accepts writes, requests is installed.
Next == Program \/ Environment
Spec == Init /\ [][Next]_vars

\* The interpreter is single-threaded and never blocks: a statement that can
\* run does run.
SpecLive == Spec /\ WF_vars(Program)

NextFault == Program \/ Environment \/ Faults
SpecFault == Init /\ [][NextFault]_vars
SpecFaultLive == SpecFault /\ WF_vars(Program \/ Crash)

\* ------------------------------------------------------------ properties
\* Reading the printed text back.
StartsWith(s, p) == Len(s) >= Len(p) /\ SubSeq(s, 1, Len(p)) = p

RECURSIVE Find(_, _, _)
\* The first index >= i at which sub occurs in s, 0 when there is none.
Find(s, sub, i) ==
    IF i + Len(sub) - 1 > Len(s) THEN 0
    ELSE IF SubSeq(s, i, i + Len(sub) - 1) = sub THEN i
    ELSE Find(s, sub, i + 1)

RECURSIVE FindLast(_, _, _)
\* The last index <= i at which sub occurs in s, 0 when there is none.
FindLast(s, sub, i) ==
    IF i < 1 THEN 0
    ELSE IF SubSeq(s, i, i + Len(sub) - 1) = sub THEN i
    ELSE FindLast(s, sub, i - 1)

IsDigit(c) == c \in {"0", "1", "2", "3", "4", "5", "6", "7", "8", "9"}

DigitValue(c) ==
    CASE c = "0" -> 0 [] c = "1" -> 1 [] c = "2" -> 2 [] c = "3" -> 3 [] c = "4" -> 4
      [] c = "5" -> 5 [] c = "6" -> 6 [] c = "7" -> 7 [] c = "8" -> 8 [] c = "9" -> 9

AllDigits(s) == Len(s) > 0 /\ \A i \in 1..Len(s) : IsDigit(SubSeq(s, i, i))

RECURSIVE ParseNat(_)
\* The number a non-empty string of decimal digits denotes.
ParseNat(s) ==
    IF Len(s) = 1 THEN DigitValue(s)
    ELSE 10 * ParseNat(SubSeq(s, 1, Len(s) - 1)) + DigitValue(SubSeq(s, Len(s), Len(s)))

JobMarker == "\"failover_job_id\": \""

\* Where the (last) failover_job_id member of a printed line starts, 0 when it has none.
MarkerAt(line) == FindLast(line, JobMarker, Len(line) - Len(JobMarker) + 1)
HasJobId(line) ==
    /\ MarkerAt(line) > 0
    /\ Find(line, "\"", MarkerAt(line) + Len(JobMarker)) > 0
\* The failover_job_id a request-descriptor line shows: up to the closing quote.
PrintedJobId(line) ==
    LET from == MarkerAt(line) + Len(JobMarker)
    IN  SubSeq(line, from, Find(line, "\"", from) - 1)
\* Its numeric suffix, as text and as a number.
PrintedSuffix(line) ==
    LET id == PrintedJobId(line) IN SubSeq(id, Len(JobPrefix) + 1, Len(id))
PrintedNumber(line) == ParseNat(PrintedSuffix(line))
\* The line with the numeric suffix of its failover_job_id blanked.
Masked(line) ==
    LET from == MarkerAt(line) + Len(JobMarker)
    IN  SubSeq(line, 1, from + Len(JobPrefix) - 1) \o "#"
            \o SubSeq(line, Find(line, "\"", from), Len(line))

IsDescriptor(line) == StartsWith(line, DescPrefix)
Positions(out, text) == {k \in 1..Len(out) : out[k] = text}
DescriptorPositions(out) == {k \in 1..Len(out) : IsDescriptor(out[k])}
StepTexts == <<Text30, Text31, Text32, Text33, Text34>>
IssueTexts == <<Text36, Text37>>
AllBefore(A, B) == \A a \in A, b \in B : a < b

\* C1: every invocation of test_vm_creation_timing() terminates and reports
\* success: once called it reaches its return, the value returned is True and
\* never anything else, and the process that ran it ends with status 0.
C1_AlwaysReturnsTrue ==
    /\ [](pc = "returned" => ret = "True")
    /\ [](ret \in {NoValue, "True"})
    /\ [](pc = "exited" => (ret = "True" /\ exit_status = 0))
    /\ ((pc = "L14") ~> (pc = "returned" /\ ret = "True"))
    /\ ((pc = "L14") ~> (pc = "exited" /\ exit_status = 0))

C1_Witness == pc = "exited" /\ ret = "True" /\ exit_status = 0 /\ Len(runs) = 2

\* C2: the narrative lines are the same in every run: any two returned
\* invocations wrote the same number of lines, equal line for line in the same
\* order, except for the numeric suffix of failover_job_id in the
\* request-descriptor line; the five Step lines and the closing ISSUE warning
\* are in every one of them.
C2_SameOutputEveryRun ==
    /\ \A i, j \in 1..Len(runs) : i < j =>
          /\ Len(runs[i].out) = Len(runs[j].out)
          /\ \A k \in 1..Len(runs[i].out) :
                IF IsDescriptor(runs[i].out[k])
                THEN /\ HasJobId(runs[i].out[k]) /\ HasJobId(runs[j].out[k])
                     /\ Masked(runs[i].out[k]) = Masked(runs[j].out[k])
                ELSE runs[i].out[k] = runs[j].out[k]
    /\ \A i \in 1..Len(runs) :
          /\ Cardinality(DescriptorPositions(runs[i].out)) = 1
          /\ \A n \in 1..Len(StepTexts) : Positions(runs[i].out, StepTexts[n]) # {}
          /\ \A n \in 1..Len(IssueTexts) : Positions(runs[i].out, IssueTexts[n]) # {}

\* Two runs whose descriptor lines differ (9 against 10: not even the length agrees).
C2_Witness ==
    /\ Len(runs) = 2
    /\ Len(runs[1].out[2]) # Len(runs[2].out[2])

\* C3: within one invocation the output comes in a fixed order: the
\* request-descriptor line before any Step line, the Step lines in the order
\* 1 to 5 and each at most once (exactly once by the return), the ISSUE lines
\* only after Step 5 and before the function returns.
C3_FixedOrder ==
    /\ Cardinality(DescriptorPositions(stdout)) <= 1
    /\ \A n \in 1..Len(StepTexts) :
          /\ Cardinality(Positions(stdout, StepTexts[n])) <= 1
          /\ Positions(stdout, StepTexts[n]) # {} => DescriptorPositions(stdout) # {}
          /\ AllBefore(DescriptorPositions(stdout), Positions(stdout, StepTexts[n]))
    /\ \A n \in 1..(Len(StepTexts) - 1) :
          /\ Positions(stdout, StepTexts[n + 1]) # {} => Positions(stdout, StepTexts[n]) # {}
          /\ AllBefore(Positions(stdout, StepTexts[n]), Positions(stdout, StepTexts[n + 1]))
    /\ \A m \in 1..Len(IssueTexts) :
          /\ Positions(stdout, IssueTexts[m]) # {} => Positions(stdout, Text34) # {}
          /\ AllBefore(Positions(stdout, Text34), Positions(stdout, IssueTexts[m]))
    /\ AllBefore(Positions(stdout, Text36), Positions(stdout, Text37))
    /\ ret = "True" =>
          /\ Cardinality(DescriptorPositions(stdout)) = 1
          /\ \A n \in 1..Len(StepTexts) : Cardinality(Positions(stdout, StepTexts[n])) = 1
          /\ \A m \in 1..Len(IssueTexts) : Cardinality(Positions(stdout, IssueTexts[m])) = 1

C3_Witness ==
    /\ pc = "returned"
    /\ Positions(stdout, Text37) # {}
    /\ Positions(stdout, Text30) # {}

\* The statements of the function body, and those of them that print.
BodyPcs == {"L14", "L17", "L23", "L26", "L29", "L30", "L31", "L32", "L33", "L34",
            "L35", "L36", "L37", "L39"}
PrintPcs == BodyPcs \ {"L17", "L39"}
PrintLines == {14, 23, 26, 29, 30, 31, 32, 33, 34, 35, 36, 37}

\* The request-descriptor line of an output.
DescLine(out) == out[CHOOSE k \in 1..Len(out) : IsDescriptor(out[k])]

\* A printed number n is the whole seconds of a reading of t ticks.
WholeSecondsOf(n, t) == n * TicksPerSecond <= t /\ t < (n + 1) * TicksPerSecond

\* The invocation under way has printed "debug-test-" followed by the whole
\* seconds of the clock reading it took.
IdShowsTheClock ==
    DescriptorPositions(stdout) # {} =>
        LET line == DescLine(stdout)
        IN  /\ HasJobId(line)
            /\ StartsWith(PrintedJobId(line), "debug-test-")
            /\ AllDigits(PrintedSuffix(line))
            /\ WholeSecondsOf(PrintedNumber(line), t_read)

\* C4 as stated: the printed failover_job_id is 'debug-test-' followed by the
\* wall-clock time in whole seconds, and across repeated invocations the
\* number never decreases.
C4_NeverDecreases ==
    /\ IdShowsTheClock
    /\ \A i, j \in 1..Len(runs) : i < j =>
          PrintedNumber(DescLine(runs[i].out)) <= PrintedNumber(DescLine(runs[j].out))

\* C4 amended: the printed failover_job_id is 'debug-test-' followed by the
\* wall-clock time in whole seconds at the invocation, and an invocation
\* prints no smaller number than the one before it unless the wall clock was
\* set back between the two readings.
C4_FollowsTheClock ==
    /\ IdShowsTheClock
    /\ (pc \in BodyPcs /\ DescriptorPositions(stdout) # {} /\ Len(runs) > 0 /\ ~back_read) =>
          PrintedNumber(DescLine(runs[Len(runs)].out)) <= PrintedNumber(DescLine(stdout))

\* A second invocation that has printed a larger number, the clock never set back.
C4_Witness ==
    /\ pc = "L39"
    /\ Len(runs) = 1
    /\ ~back_read
    /\ PrintedNumber(DescLine(runs[1].out)) < PrintedNumber(DescLine(stdout))

\* C5: no network activity in any execution: no socket is ever open and
\* OMA_API_BASE is never read after its definition, although requests is
\* imported and the base URL is defined.
C5_NoNetwork ==
    /\ sockets = {}
    /\ base_reads = 0

C5_Witness ==
    /\ pc = "exited"
    /\ "requests" \in imported
    /\ OMA_API_BASE = "http://localhost:8080"
    /\ sockets = {}

\* C6: under normal conditions no error state is reachable: no exception is
\* ever raised, from the start of the process to its exit with status 0.
C6_NoErrorState ==
    /\ error = "none"
    /\ pc # "raised"
    /\ exit_status \in {Running, 0}

C6_Witness ==
    /\ launches = 2
    /\ pc = "exited"
    /\ exit_status = 0
    /\ error = "none"

\* The value a dictionary holds for a key.
Get(d, k) == d[CHOOSE i \in 1..Len(d) : d[i][1] = k][2]
Keys(d) == {d[i][1] : i \in 1..Len(d)}

\* C7: the request descriptor always has exactly the three fields vm_id,
\* vm_name and failover_job_id; vm_id and vm_name are 'debug-test-vm-001' in
\* every run, and two runs' descriptors differ in failover_job_id at most.
C7_RequestShape ==
    LET Shaped(d) ==
            /\ Len(d) = 3
            /\ Keys(d) = {"vm_id", "vm_name", "failover_job_id"}
            /\ Get(d, "vm_id") = "debug-test-vm-001"
            /\ Get(d, "vm_name") = "debug-test-vm-001"
    IN  /\ test_vm_request # NoRequest => Shaped(test_vm_request)
        /\ \A i \in 1..Len(runs) : Shaped(runs[i].request)
        /\ \A i, j \in 1..Len(runs) : \A k \in Keys(runs[i].request) :
              k # "failover_job_id" => Get(runs[i].request, k) = Get(runs[j].request, k)

\* Two runs whose descriptors do differ in failover_job_id.
C7_Witness ==
    /\ Len(runs) = 2
    /\ Get(runs[1].request, "failover_job_id") # Get(runs[2].request, "failover_job_id")

\* C8: a write to standard output that fails at a print step is not caught:
\* the run stops at that step with the exception raised, no later line is
\* printed, the function does not return True, and the process ends with a
\* non-zero status.
C8_StdoutFailureIsFatal ==
    /\ [][(pc \in PrintPcs /\ ~stdout_ok /\ pc' # pc) =>
            (pc' = "raised" /\ error' = "OSError" /\ stdout' = stdout)]_vars
    /\ [][(error = "OSError" /\ error' = "OSError") => stdout' = stdout]_vars
    /\ [](error = "OSError" =>
            /\ pc \in {"raised", "exited"}
            /\ ret # "True"
            /\ exit_status \in {Running, 1}
            /\ (pc = "exited" => exit_status = 1)
            /\ trace[Len(trace)] \in PrintLines
            /\ Cardinality({k \in 1..Len(trace) : trace[k] \in PrintLines}) = Len(stdout) + 1)
    /\ ((error = "OSError") ~> (pc = "exited" /\ exit_status = 1))

\* A write failed after the descriptor and more had been printed, and the process has ended.
C8_Witness ==
    /\ error = "OSError"
    /\ pc = "exited"
    /\ exit_status = 1
    /\ Len(stdout) > 2
    /\ ret # "True"

\* C9: an invocation reads the clock once and passes once over its
\* statements: no statement runs twice and they run in source order, the
\* reading precedes the descriptor line, the number printed is built from that
\* reading, and every returned invocation has run the same fourteen statements.
C9_OnePass ==
    /\ clock_reads <= 1
    /\ \A a, b \in 1..Len(trace) : a < b => trace[a] < trace[b]
    /\ DescriptorPositions(stdout) # {} =>
          /\ clock_reads = 1
          /\ WholeSecondsOf(PrintedNumber(DescLine(stdout)), t_read)
    /\ pc = "returned" =>
          /\ clock_reads = 1
          /\ trace = <<14, 17, 23, 26, 29, 30, 31, 32, 33, 34, 35, 36, 37, 39>>

\* Returned, the clock by now in another second than the one read.
C9_Witness ==
    /\ pc = "returned"
    /\ clock_reads = 1
    /\ ~WholeSecondsOf(PrintedNumber(DescLine(stdout)), clock)

\* C10: an invocation leaves the state outside the call as it was: the body
\* changes no module-level name and opens nothing, OMA_API_BASE is
\* 'http://localhost:8080' from its definition on, the descriptor is gone once
\* the function has returned, and what an invocation writes depends on nothing
\* but the clock value it shows.
C10_FrameAndIndependence ==
    /\ [][(pc \in BodyPcs) =>
            (OMA_API_BASE' = OMA_API_BASE /\ imported' = imported /\ sockets' = sockets)]_vars
    /\ [](pc \notin {"idle", "load", "L11"} => OMA_API_BASE = "http://localhost:8080")
    /\ [](pc \notin (BodyPcs \ {"L14", "L17"}) => test_vm_request = NoRequest)
    /\ [](\A i, j \in 1..Len(runs) :
            PrintedNumber(DescLine(runs[i].out)) = PrintedNumber(DescLine(runs[j].out)) =>
                (runs[i].out = runs[j].out /\ runs[i].request = runs[j].request))

\* Two invocations that read the same second of the clock, the second one over.
C10_Witness ==
    /\ Len(runs) = 2
    /\ runs[1].out = runs[2].out
    /\ pc = "exited"
    /\ test_vm_request = NoRequest
    /\ OMA_API_BASE = "http://localhost:8080"
====
